---------------------------- MODULE Spec2Model ----------------------------
(***************************************************************************)
(* The tasks HTTP service of src/tasks_database/api_server.py: one SQLite  *)
(* table `tasks`, five Flask handlers, one connection per request.  Flask  *)
(* serves requests on concurrent threads, so every handler is split at the *)
(* points where another request's statements can run in between: each SQL  *)
(* statement (with its commit) is one atomic step of the database.         *)
(***************************************************************************)
EXTENDS Integers, Sequences, FiniteSets

\* ------------------------------------------------------------------ bounds
MaxId == 2          \* ids the table may hand out; requests address 1..MaxId
MaxClock == 1       \* last wall-clock second a handler can observe
MaxRequests == 3    \* requests accepted over a run

Threads == {"t1", "t2"}
Ids == 1 .. MaxId

\* --------------------------------------------------------- request bodies
\* A JSON value of a request body: null, a string (a sequence of
\* characters) or a boolean.
JNull == [t |-> "null"]
JStr(s) == [t |-> "str", v |-> s]
JBool(b) == [t |-> "bool", v |-> b]

TitleValues ==
    { JNull, JStr(<< >>), JStr(<<" ">>), JStr(<<"a">>), JStr(<<" ", "b", " ">>) }
CompletedValues == { JNull, JBool(TRUE), JBool(FALSE) }

\* request.get_json(silent=True) or {}: the keys present and their values.
Bodies ==
    { [keys |-> k,
       title |-> IF "title" \in k THEN tv ELSE JNull,
       completed |-> IF "completed" \in k THEN cv ELSE JNull] :
         k \in SUBSET {"title", "completed"},
         tv \in TitleValues, cv \in CompletedValues }

IsSpace(c) == c = " "

RECURSIVE lstrip(_)
lstrip(s) == IF s # << >> /\ IsSpace(Head(s)) THEN lstrip(Tail(s)) ELSE s

RECURSIVE rstrip(_)
rstrip(s) ==
    IF s # << >> /\ IsSpace(s[Len(s)]) THEN rstrip(SubSeq(s, 1, Len(s) - 1)) ELSE s

strip_none(s) == s

\* str.strip()
strip(s) == rstrip(lstrip(s))

\* (data.get("title") or "").strip()
title_of(data) ==
    IF "title" \in data.keys /\ data.title.t = "str" THEN strip(data.title.v)
    ELSE << >>

\* bool(x) of a JSON value
truthy(j) ==
    CASE j.t = "null" -> FALSE
      [] j.t = "bool" -> j.v
      [] j.t = "str"  -> j.v # << >>

\* 1 if bool(data.get("completed", False)) else 0
completed_of(data) ==
    IF "completed" \in data.keys /\ truthy(data.completed) THEN 1 ELSE 0

\* ------------------------------------------------------------------ state
VARIABLES
    tasks,            \* the tasks table: id -> row
    sqlite_sequence,  \* AUTOINCREMENT: the largest rowid ever handed out
    clock,            \* wall clock, in whole seconds (utcnow, timespec="seconds")
    pc,               \* per thread: where its handler stands
    local,            \* per thread: the handler's local variables
    resp,             \* per thread: the response of its last finished request
    nreq,             \* requests accepted so far
    deleted,          \* history: ids whose DELETE was answered 204
    lastCreated,      \* history: id returned by the latest 201, 0 if none
    base,             \* history: completed as last set by INSERT or PUT, per id
    flips             \* history: toggle UPDATEs that hit the row since, per id

vars == << tasks, sqlite_sequence, clock, pc, local, resp, nreq,
           deleted, lastCreated, base, flips >>

hist == << deleted, lastCreated, base, flips >>

\* Python's None as a task / the empty handler frame / no response yet.
NoTask ==
    [id |-> 0, title |-> << >>, completed |-> FALSE, created_at |-> 0, updated_at |-> 0]

NoRow == [title |-> << >>, completed |-> 0, created_at |-> 0, updated_at |-> 0]

NoLocal ==
    [task_id |-> 0, title |-> << >>, set_title |-> FALSE, completed |-> 0,
     set_completed |-> FALSE, now_iso |-> 0, row_completed |-> 0]

NoResp ==
    [op |-> "none", id |-> 0, status |-> 0,
     task |-> [id |-> 0, completed |-> FALSE], list |-> << >>]

\* jsonify(task): the body of a response.  Of a task the model keeps id and
\* completed; title and timestamps are the row's, copied by row_to_task.
jsonify(task) == [id |-> task.id, completed |-> task.completed]

Response(op, id, status, task) ==
    [op |-> op, id |-> id, status |-> status, task |-> jsonify(task), list |-> << >>]

\* bool(row["completed"] or 0), and the rest of the row as it is
row_to_task(id, row) ==
    [id |-> id, title |-> row.title, completed |-> row.completed # 0,
     created_at |-> row.created_at, updated_at |-> row.updated_at]

\* SELECT ... FROM tasks WHERE id = ?  ->  the task, or None
get_task_by_id(t, id) ==
    IF id \in DOMAIN t THEN row_to_task(id, t[id]) ELSE NoTask

SetMax(S) == CHOOSE x \in S : \A y \in S : y <= x

rowid_reusing(t, seq) == IF DOMAIN t = {} THEN 1 ELSE SetMax(DOMAIN t) + 1

\* INTEGER PRIMARY KEY AUTOINCREMENT: one more than the largest rowid the
\* table has ever held, which sqlite_sequence records.
autoincrement_rowid(t, seq) == SetMax(DOMAIN t \cup {seq}) + 1

\* ORDER BY created_at DESC, id DESC
Before(t, i, j) ==
    \/ t[i].created_at > t[j].created_at
    \/ t[i].created_at = t[j].created_at /\ i > j

RECURSIVE order_by(_, _)
order_by(t, S) ==
    IF S = {} THEN << >>
    ELSE LET first == CHOOSE i \in S : \A j \in S \ {i} : Before(t, i, j)
         IN  << jsonify(row_to_task(first, t[first])) >> \o order_by(t, S \ {first})

NoRows == [i \in {} |-> NoRow]

Init ==
    /\ tasks = NoRows
    /\ sqlite_sequence = 0
    /\ clock = 0
    /\ pc = [p \in Threads |-> "idle"]
    /\ local = [p \in Threads |-> NoLocal]
    /\ resp = [p \in Threads |-> NoResp]
    /\ nreq = 0
    /\ deleted = {}
    /\ lastCreated = 0
    /\ base = [i \in Ids |-> 0]
    /\ flips = [i \in Ids |-> 0]

\* The wall clock moves on to the next second.
Tick ==
    /\ clock < MaxClock
    /\ clock' = clock + 1
    /\ UNCHANGED << tasks, sqlite_sequence, pc, local, resp, nreq, hist >>

Accept(p) ==
    /\ pc[p] = "idle"
    /\ nreq < MaxRequests
    /\ nreq' = nreq + 1

Reply(p, r) ==
    /\ resp' = [resp EXCEPT ![p] = r]
    /\ pc' = [pc EXCEPT ![p] = "idle"]
    /\ local' = [local EXCEPT ![p] = NoLocal]

Goto(p, label, frame) ==
    /\ pc' = [pc EXCEPT ![p] = label]
    /\ local' = [local EXCEPT ![p] = frame]
    /\ resp' = [resp EXCEPT ![p] = NoResp]


\* ----------------------------------------------------------- POST /api/tasks
\* A create that has read the clock but not yet inserted.
Inserting == { p \in Threads : pc[p] = "create_insert" }

title_or_untitled(data) ==
    IF title_of(data) = << >> THEN <<"a">> ELSE title_of(data)

\* title = (data.get("title") or "").strip(), as the handler binds it
create_title(data) == title_of(data)

\* Lines 102-108: parse and validate the body, then read the clock.
create_request(p, data) ==
    /\ Accept(p)
    /\ IF create_title(data) = << >>
       THEN Reply(p, Response("create", 0, 400, NoTask))
       ELSE /\ sqlite_sequence + Cardinality(Inserting) < MaxId
            /\ Goto(p, "create_insert",
                    [NoLocal EXCEPT !.title = create_title(data),
                                    !.completed = completed_of(data),
                                    !.now_iso = clock])
    /\ UNCHANGED << tasks, sqlite_sequence, clock, hist >>

create_task(p) == \E data \in Bodies : create_request(p, data)

\* Lines 109-116: INSERT, lastrowid, commit.
create_insert(p) ==
    /\ pc[p] = "create_insert"
    /\ LET id == autoincrement_rowid(tasks, sqlite_sequence)
           row == [title |-> local[p].title, completed |-> local[p].completed,
                   created_at |-> local[p].now_iso, updated_at |-> local[p].now_iso]
       IN  /\ tasks' = [i \in DOMAIN tasks \cup {id} |->
                           IF i = id THEN row ELSE tasks[i]]
           /\ sqlite_sequence' = id
           /\ base' = [base EXCEPT ![id] = row.completed]
           /\ flips' = [flips EXCEPT ![id] = 0]
           /\ pc' = [pc EXCEPT ![p] = "create_reread"]
           /\ local' = [local EXCEPT ![p] = [NoLocal EXCEPT !.task_id = id]]
    /\ UNCHANGED << clock, resp, nreq, deleted, lastCreated >>

\* Lines 117-118: re-read the row by id and answer 201 with what was read.
create_return(p) ==
    /\ pc[p] = "create_reread"
    /\ Reply(p, Response("create", local[p].task_id, 201,
                         get_task_by_id(tasks, local[p].task_id)))
    /\ lastCreated' = local[p].task_id
    /\ UNCHANGED << tasks, sqlite_sequence, clock, nreq, deleted, base, flips >>

\* ------------------------------------------------------ PUT /api/tasks/<id>
\* Lines 135-156: collect the fields to set; 400 on an empty title or on no
\* field at all; then read the clock.
update_request(p, id, data) ==
    /\ Accept(p)
    /\ IF "title" \in data.keys /\ title_of(data) = << >>
       THEN Reply(p, Response("update", id, 400, NoTask))
       ELSE IF data.keys = {}
       THEN Reply(p, Response("update", id, 400, NoTask))
       ELSE Goto(p, "update_exec",
                 [NoLocal EXCEPT !.task_id = id,
                                 !.set_title = "title" \in data.keys,
                                 !.title = title_of(data),
                                 !.set_completed = "completed" \in data.keys,
                                 !.completed = completed_of(data),
                                 !.now_iso = clock])
    /\ UNCHANGED << tasks, sqlite_sequence, clock, hist >>

update_task(p) == \E id \in Ids, data \in Bodies : update_request(p, id, data)

rowcount_one(t, id) == 1

\* cur.rowcount of a statement with WHERE id = ?
rowcount(t, id) == IF id \in DOMAIN t THEN 1 ELSE 0

set_all_fields(row, f) ==
    [row EXCEPT !.title = IF f.set_title THEN f.title ELSE row.title,
                !.completed = f.completed,
                !.updated_at = f.now_iso]

\* UPDATE tasks SET <the fields collected>, updated_at = ?
update_set(row, f) ==
    [row EXCEPT !.title = IF f.set_title THEN f.title ELSE row.title,
                !.completed = IF f.set_completed THEN f.completed ELSE row.completed,
                !.updated_at = f.now_iso]

\* Lines 158-164: the UPDATE; 404 and rollback when it matched no row.
update_execute(p) ==
    /\ pc[p] = "update_exec"
    /\ LET id == local[p].task_id
       IN  IF rowcount(tasks, id) = 0
           THEN /\ Reply(p, Response("update", id, 404, NoTask))
                /\ UNCHANGED << tasks, base, flips >>
           ELSE /\ tasks' = [i \in DOMAIN tasks |->
                                IF i = id THEN update_set(tasks[i], local[p])
                                ELSE tasks[i]]
                /\ IF local[p].set_completed
                   THEN /\ base' = [base EXCEPT ![id] = local[p].completed]
                        /\ flips' = [flips EXCEPT ![id] = 0]
                   ELSE UNCHANGED << base, flips >>
                /\ pc' = [pc EXCEPT ![p] = "update_reread"]
                /\ local' = [local EXCEPT ![p] = [NoLocal EXCEPT !.task_id = id]]
                /\ UNCHANGED resp
    /\ UNCHANGED << sqlite_sequence, clock, nreq, deleted, lastCreated >>

\* Lines 165-166: re-read the row and answer 200 with what was read.
update_return(p) ==
    /\ pc[p] = "update_reread"
    /\ Reply(p, Response("update", local[p].task_id, 200,
                         get_task_by_id(tasks, local[p].task_id)))
    /\ UNCHANGED << tasks, sqlite_sequence, clock, nreq, hist >>

\* --------------------------------------------- PATCH /api/tasks/<id>/toggle
same_val(c) == c

\* 0 if (row["completed"] or 0) else 1
new_val(c) == IF c # 0 THEN 0 ELSE 1

flip_stored(read, stored) == new_val(stored)

\* The value the UPDATE binds to completed: computed from the value the
\* SELECT read, not from the value stored when the UPDATE runs.
toggle_set(read, stored) == new_val(read)

\* Lines 179-185: SELECT completed; 404 when there is no row.
toggle_request(p, id) ==
    /\ Accept(p)
    /\ IF id \notin DOMAIN tasks
       THEN Reply(p, Response("toggle", id, 404, NoTask))
       ELSE Goto(p, "toggle_update",
                 [NoLocal EXCEPT !.task_id = id,
                                 !.row_completed = tasks[id].completed])
    /\ UNCHANGED << tasks, sqlite_sequence, clock, hist >>

toggle_task(p) == \E id \in Ids : toggle_request(p, id)

\* Lines 187-192: UPDATE completed and updated_at, commit; the row count of
\* the UPDATE is not looked at.
toggle_update(p) ==
    /\ pc[p] = "toggle_update"
    /\ LET id == local[p].task_id
       IN  IF id \in DOMAIN tasks
           THEN /\ tasks' = [i \in DOMAIN tasks |->
                                IF i = id
                                THEN [tasks[i] EXCEPT
                                        !.completed = toggle_set(local[p].row_completed,
                                                                 tasks[i].completed),
                                        !.updated_at = clock]
                                ELSE tasks[i]]
                /\ flips' = [flips EXCEPT ![id] = @ + 1]
           ELSE UNCHANGED << tasks, flips >>
    /\ pc' = [pc EXCEPT ![p] = "toggle_reread"]
    /\ UNCHANGED << sqlite_sequence, clock, local, resp, nreq,
                    deleted, lastCreated, base >>

\* Lines 193-194: re-read the row and answer 200 with what was read.
toggle_return(p) ==
    /\ pc[p] = "toggle_reread"
    /\ Reply(p, Response("toggle", local[p].task_id, 200,
                         get_task_by_id(tasks, local[p].task_id)))
    /\ UNCHANGED << tasks, sqlite_sequence, clock, nreq, hist >>

\* --------------------------------------------------- DELETE /api/tasks/<id>
delete_request(p, id) ==
    /\ Accept(p)
    /\ IF rowcount(tasks, id) = 0
       THEN /\ Reply(p, Response("delete", id, 404, NoTask))
            /\ UNCHANGED << tasks, deleted >>
       ELSE /\ tasks' = [i \in DOMAIN tasks \ {id} |-> tasks[i]]
            /\ deleted' = deleted \cup {id}
            /\ Reply(p, Response("delete", id, 204, NoTask))
    /\ UNCHANGED << sqlite_sequence, clock, lastCreated, base, flips >>

delete_task(p) == \E id \in Ids : delete_request(p, id)

\* ---------------------------------------------------------- GET /api/tasks
list_tasks(p) ==
    /\ Accept(p)
    /\ Reply(p, [Response("list", 0, 200, NoTask) EXCEPT
                    !.list = order_by(tasks, DOMAIN tasks)])
    /\ UNCHANGED << tasks, sqlite_sequence, clock, hist >>

\* ------------------------------------------------------------ specifications
Handler(p) ==
    \/ create_task(p) \/ create_insert(p) \/ create_return(p)
    \/ update_task(p) \/ update_execute(p) \/ update_return(p)
    \/ toggle_task(p) \/ toggle_update(p) \/ toggle_return(p)
    \/ delete_task(p)
    \/ list_tasks(p)

\* Flask's threaded server: the handlers of different requests interleave.
Next == Tick \/ \E p \in Threads : Handler(p)

Spec == Init /\ [][Next]_vars

\* One request at a time: one thread serves them all, each handler running
\* to its response before the next request is accepted.
Main == CHOOSE p \in Threads : TRUE

NextSeq == Tick \/ Handler(Main)

SpecSeq == Init /\ [][NextSeq]_vars

\* ------------------------------------------------------------------ claims
\* A string with nothing but whitespace in it (the empty string included).
Blank(s) == \A i \in 1 .. Len(s) : s[i] = " "

\* The body gives no usable title: key absent, null, empty or whitespace-only.
NoUsableTitle(data) ==
    \/ "title" \notin data.keys
    \/ data.title.t # "str"
    \/ Blank(data.title.v)

\* The body of an update names no field, or a title with nothing in it.
InvalidUpdate(data) ==
    \/ data.keys = {}
    \/ "title" \in data.keys /\ NoUsableTitle(data)

\* The step accepts a request on thread p: p was idle, the request count
\* goes up and the other threads stand still.  Every *_request action of p
\* implies it.
Accepts(p) ==
    /\ pc[p] = "idle"
    /\ nreq' = nreq + 1
    /\ \A q \in Threads \ {p} : pc'[q] = pc[q] /\ resp'[q] = resp[q]

\* What a step that accepts a create (an update of id) on thread p looks
\* like, whatever the body: create_request and update_request imply these.
Creates(p) ==
    Accepts(p) /\ (pc'[p] = "create_insert" \/ resp'[p].op = "create")

Updates(p, id) ==
    /\ Accepts(p)
    /\ \/ pc'[p] = "update_exec" /\ local'[p].task_id = id
       \/ resp'[p].op = "update" /\ resp'[p].id = id

\* The step answers thread p with 400 and leaves the storage as it was.
Rejected(p) ==
    /\ pc'[p] = "idle"
    /\ resp'[p].status = 400
    /\ tasks' = tasks
    /\ sqlite_sequence' = sqlite_sequence

\* C1: a create whose title is absent, empty or whitespace-only, and an
\* update that names no field or gives a title empty after trimming, is
\* answered 400 in the step that accepts it, with the tasks table (rows and
\* id counter) the same before and after.
C1_InvalidRejectedBeforeStorage ==
    [][\A p \in Threads :
         /\ Creates(p) =>
               \A data \in Bodies :
                  NoUsableTitle(data) /\ create_request(p, data) => Rejected(p)
         /\ \A id \in Ids :
               Updates(p, id) =>
                  \A data \in Bodies :
                     InvalidUpdate(data) /\ update_request(p, id, data)
                        => Rejected(p)
      ]_vars

\* A create was answered 400 while the table held a row.
C1_Witness ==
    /\ DOMAIN tasks # {}
    /\ \E p \in Threads : resp[p].op = "create" /\ resp[p].status = 400

\* C2 as stated: an update answered for an id that never had a row (an id
\* beyond every assigned id) was answered 404, whatever its body.
C2_Original ==
    \A p \in Threads :
        resp[p].op = "update" /\ resp[p].id > sqlite_sequence
            => resp[p].status = 404

\* C2 as amended: an update whose body passes validation and whose UPDATE
\* finds no row for the id is answered 404 and changes nothing; an update
\* whose body fails validation is answered 400 also when the id has no row.
C2_NotFoundAfterValidation ==
    [][\A p \in Threads :
         /\ update_execute(p) /\ local[p].task_id \notin DOMAIN tasks
               => /\ pc'[p] = "idle"
                  /\ resp'[p].status = 404
                  /\ tasks' = tasks
         /\ \A id \in Ids \ DOMAIN tasks :
               Updates(p, id) =>
                  \A data \in Bodies :
                     update_request(p, id, data)
                        => IF InvalidUpdate(data)
                           THEN resp'[p].status = 400
                           ELSE pc'[p] = "update_exec" /\ local'[p].task_id = id
      ]_vars

\* An update of an id that never had a row was answered 404.
C2_Witness ==
    \E p \in Threads :
        /\ resp[p].op = "update"
        /\ resp[p].status = 404
        /\ resp[p].id > sqlite_sequence

\* C3 as stated: a request accepted for an id whose delete was already
\* answered 204, be it an update, a toggle or a delete, is answered 404 and
\* nothing else.
C3_Original ==
    [][\A p \in Threads : \A id \in deleted :
         /\ (\/ toggle_request(p, id)
             \/ delete_request(p, id)
             \/ \E data \in Bodies : update_request(p, id, data))
            /\ pc'[p] = "idle"
               => resp'[p].status = 404
         /\ update_execute(p) /\ local[p].task_id = id => resp'[p].status = 404
      ]_vars

\* C3 as amended: once a delete of id i was answered 204, i is never a row
\* again (no later create is given a used id), and every toggle or delete
\* accepted later for i, and every update whose UPDATE runs later, is
\* answered 404; an update accepted later with a body that fails validation
\* is answered 400.  None of them succeeds.
C3_DeletionPermanent ==
    /\ [](deleted \cap DOMAIN tasks = {})
    /\ [][\A p \in Threads : \A id \in deleted :
            /\ toggle_request(p, id) \/ delete_request(p, id)
                  => pc'[p] = "idle" /\ resp'[p].status = 404
            /\ update_execute(p) /\ local[p].task_id = id
                  => pc'[p] = "idle" /\ resp'[p].status = 404
            /\ \A data \in Bodies :
                  update_request(p, id, data)
                     => IF InvalidUpdate(data)
                        THEN resp'[p].status = 400
                        ELSE pc'[p] = "update_exec"
         ]_vars

\* The latest answer is the 404 of a delete of an id whose delete was
\* answered 204 before.
C3_Witness ==
    /\ resp[Main].op = "delete" /\ resp[Main].status = 404
    /\ resp[Main].id \in deleted

\* C4: with one request at a time (SpecSeq), a toggle of an existing id is answered
\* 200 with completed the negation of the value its SELECT found, and the
\* stored completed is the value last set by create or update flipped once
\* per toggle since: two toggles in a row restore it.
C4_ToggleInvolution ==
    /\ [](\A i \in DOMAIN tasks : tasks[i].completed = (base[i] + flips[i]) % 2)
    /\ [][\A p \in Threads :
            /\ \A id \in DOMAIN tasks :
                  toggle_request(p, id)
                     => /\ pc'[p] = "toggle_update"
                        /\ local'[p].row_completed = tasks[id].completed
            /\ toggle_return(p)
                  => /\ resp'[p].status = 200
                     /\ resp'[p].task.id = local[p].task_id
                     /\ resp'[p].task.completed = (local[p].row_completed = 0)
         ]_vars

\* A task created with completed false was toggled twice, the second toggle
\* answered 200 with completed false, and false is what is stored.
C4_Witness ==
    \E p \in Threads : \E i \in DOMAIN tasks :
        /\ resp[p].op = "toggle" /\ resp[p].status = 200 /\ resp[p].id = i
        /\ resp[p].task = [id |-> i, completed |-> FALSE]
        /\ base[i] = 0 /\ flips[i] = 2
        /\ tasks[i].completed = 0

\* C5: when two toggles of one id have read the same completed value v and
\* both have run their UPDATE, the stored value is v flipped once, not twice:
\* the second write repeats the first.
C5_LostUpdate ==
    \A p, q \in Threads :
        /\ p # q
        /\ pc[p] = "toggle_reread" /\ pc[q] = "toggle_reread"
        /\ local[p].task_id = local[q].task_id
        /\ local[p].row_completed = local[q].row_completed
        /\ local[p].task_id \in DOMAIN tasks
        => tasks[local[p].task_id].completed = 1 - local[p].row_completed

\* Two toggles of one id were both answered 200, with no other write to the
\* row since its completed was set, and the stored value is flipped once.
C5_Witness ==
    \E p, q \in Threads : \E i \in DOMAIN tasks :
        /\ p # q
        /\ resp[p].op = "toggle" /\ resp[p].status = 200 /\ resp[p].id = i
        /\ resp[q].op = "toggle" /\ resp[q].status = 200 /\ resp[q].id = i
        /\ resp[p].task = resp[q].task
        /\ flips[i] = 2
        /\ tasks[i].completed # base[i]

\* C6: every row of the tasks table has a title that is neither empty nor
\* whitespace-only and a completed that is 0 or 1.
C6_RowsWellFormed ==
    \A i \in DOMAIN tasks :
        /\ ~ Blank(tasks[i].title)
        /\ tasks[i].completed \in {0, 1}

\* A row whose title arrived with whitespace around it, set by an update
\* after the row was created, with completed 1.
C6_Witness ==
    \E i \in DOMAIN tasks :
        /\ tasks[i].title = <<"b">>
        /\ tasks[i].completed = 1
        /\ \E p \in Threads : resp[p].op = "update" /\ resp[p].status = 200
                              /\ resp[p].id = i

\* C7: a list taken after a create was answered with task T has T as its
\* first element; taken here in the case most favourable to the claim: T is
\* also the task inserted last, T is still stored, and no other create
\* stands between its insert and its answer.
C7_LastCreatedListedFirst ==
    [][\A p \in Threads :
         /\ list_tasks(p)
         /\ lastCreated \in DOMAIN tasks
         /\ lastCreated = sqlite_sequence
         /\ \A q \in Threads : pc[q] # "create_reread"
         => resp'[p].list[1].id = lastCreated
      ]_vars

\* C8: the UPDATE of a successful update of id i leaves every other row, the
\* set of ids and i's created_at as they were, and leaves i's title
\* (completed) as it was when the body has no title (completed); the UPDATE
\* of a toggle leaves every other row, the set of ids and the row's title
\* and created_at as they were.
C8_UpdateFrame ==
    [][\A p \in Threads :
         /\ update_execute(p) /\ local[p].task_id \in DOMAIN tasks
               => LET i == local[p].task_id
                  IN  /\ DOMAIN tasks' = DOMAIN tasks
                      /\ \A j \in DOMAIN tasks \ {i} : tasks'[j] = tasks[j]
                      /\ tasks'[i].created_at = tasks[i].created_at
                      /\ ~ local[p].set_title => tasks'[i].title = tasks[i].title
                      /\ ~ local[p].set_completed
                            => tasks'[i].completed = tasks[i].completed
         /\ toggle_update(p)
               => LET i == local[p].task_id
                  IN  /\ DOMAIN tasks' = DOMAIN tasks
                      /\ \A j \in DOMAIN tasks \ {i} : tasks'[j] = tasks[j]
                      /\ i \in DOMAIN tasks
                            => /\ tasks'[i].created_at = tasks[i].created_at
                               /\ tasks'[i].title = tasks[i].title
         /\ \A id \in Ids :
               Updates(p, id) /\ pc'[p] = "update_exec" =>
                  \A data \in Bodies :
                     update_request(p, id, data)
                        => /\ local'[p].set_title = ("title" \in data.keys)
                           /\ local'[p].set_completed = ("completed" \in data.keys)
      ]_vars

\* An update was answered 200 for a row that still has completed 1, with a
\* second row in the table.
C8_Witness ==
    \E p \in Threads : \E i \in DOMAIN tasks :
        /\ resp[p].op = "update" /\ resp[p].status = 200 /\ resp[p].id = i
        /\ resp[p].task = [id |-> i, completed |-> TRUE]
        /\ tasks[i].completed = 1
        /\ DOMAIN tasks # {i}

\* C9: the UPDATE of a toggle of an existing task leaves the row with an
\* updated_at that differs from the one it had.
C9_ToggleChangesUpdatedAt ==
    [][\A p \in Threads :
         toggle_update(p) /\ local[p].task_id \in DOMAIN tasks
            => tasks'[local[p].task_id].updated_at
                  # tasks[local[p].task_id].updated_at
      ]_vars

\* C10: a create, update or toggle is answered 400 or 404, or 200/201 with
\* a task that carries the request's id; never 200/201 with no task.
C10_SuccessCarriesTask ==
    \A p \in Threads :
        resp[p].op \in {"create", "update", "toggle"}
            => \/ resp[p].status \in {400, 404}
               \/ /\ resp[p].status \in {200, 201}
                  /\ resp[p].task.id # 0
                  /\ resp[p].task.id = resp[p].id

=============================================================================
